---------------------------- MODULE Spec2Model ----------------------------
(***************************************************************************)
(* Model of src/main.py: the PDF outline extractor.                        *)
(*                                                                         *)
(* A Python str is a sequence of one-character strings.  A font size is an *)
(* integer number of tenths of a point (16.0pt is 160), so that round()    *)
(* and the 0.95 title threshold are computed and not assumed.  A dict is a *)
(* record, a list a sequence, a set a set.                                 *)
(*                                                                         *)
(* Specifications:                                                         *)
(*   Spec        parse_pdf_to_outline on one document                      *)
(*   SpecMain    main: the batch loop over ./input                         *)
(*   SpecClean   clean_text on a bounded raw string                        *)
(*   SpecHeading is_likely_heading_by_style on a bounded input             *)
(***************************************************************************)
EXTENDS Integers, Sequences, FiniteSets, TLC

VARIABLES
    pc,            \* position in the function the specification runs
    doc,           \* the open fitz document (parse_pdf_to_outline)
    outline,       \* output['outline']
    title,         \* output['title']
    calls,         \* names of the functions invoked so far
    locals,        \* locals of process_by_styles, kept for inspection
    pdf_files,     \* main: list(input_dir.glob("*.pdf"))
    file_index,    \* main: position of the for loop in pdf_files
    written,       \* main: the files written below ./output, in order
    printed,       \* main: the lines printed, in order
    text,          \* argument of clean_text / is_likely_heading_by_style
    style,         \* argument of is_likely_heading_by_style
    body_style,    \* argument of is_likely_heading_by_style
    result,        \* return value of is_likely_heading_by_style
    cleaned,       \* clean_text(text)
    recleaned      \* clean_text(clean_text(text))

vars == <<pc, doc, outline, title, calls, locals, pdf_files, file_index,
          written, printed, text, style, body_style, result, cleaned,
          recleaned>>

parseVars == <<doc, outline, title, calls, locals>>
mainVars == <<pdf_files, file_index, written, printed>>
textVars == <<text, style, body_style, result, cleaned, recleaned>>

(***************************************************************************)
(* Bounds of the model.                                                    *)
(***************************************************************************)
MaxRawLen == 5      \* longest raw string given to clean_text
MaxTextLen == 4     \* longest enumerated text given to the classifier
MaxPages == 2       \* most pages of a document on the style path
MaxTocLen == 4      \* most entries of an embedded table of contents
MaxFiles == 2       \* most files in ./input

(***************************************************************************)
(* Characters.  NUL stands for U+0000: not whitespace, not printable.      *)
(* "\t" and "\n" are whitespace and not printable; " " is whitespace and   *)
(* printable (str.isprintable counts the ASCII space as printable).        *)
(***************************************************************************)
NUL == "NUL"
NoValue == "None"

Whitespace == {" ", "\t", "\n"}
NonPrintable == {"\t", "\n", NUL}
Digits == {"0", "1", "2", "3", "4", "5", "6", "7", "8", "9"}
UpperCase == {"A", "B", "C", "D", "E", "F", "G", "H", "I", "J", "K", "L", "M",
              "N", "O", "P", "Q", "R", "S", "T", "U", "V", "W", "X", "Y", "Z"}
LowerCase == {"a", "b", "c", "d", "e", "f", "g", "h", "i", "j", "k", "l", "m",
              "n", "o", "p", "q", "r", "s", "t", "u", "v", "w", "x", "y", "z"}

isspace(c) == c \in Whitespace
isprintable(c) == c \notin NonPrintable
isalpha(c) == c \in UpperCase \cup LowerCase

\* chr.lower() of one character
LowerChar(c) ==
    CASE c = "A" -> "a" [] c = "B" -> "b" [] c = "C" -> "c" [] c = "D" -> "d"
      [] c = "E" -> "e" [] c = "F" -> "f" [] c = "G" -> "g" [] c = "H" -> "h"
      [] c = "I" -> "i" [] c = "J" -> "j" [] c = "K" -> "k" [] c = "L" -> "l"
      [] c = "M" -> "m" [] c = "N" -> "n" [] c = "O" -> "o" [] c = "P" -> "p"
      [] c = "Q" -> "q" [] c = "R" -> "r" [] c = "S" -> "s" [] c = "T" -> "t"
      [] c = "U" -> "u" [] c = "V" -> "v" [] c = "W" -> "w" [] c = "X" -> "x"
      [] c = "Y" -> "y" [] c = "Z" -> "z" [] OTHER -> c

\* a function over 1..n as the sequence it is
List(f) == <<>> \o f

\* str.lower()
lower(s) == List([i \in 1..Len(s) |-> LowerChar(s[i])])

\* sub in s
Contains(s, sub) ==
    \E i \in 1..(Len(s) - Len(sub) + 1) : SubSeq(s, i, i + Len(sub) - 1) = sub

\* str.strip()
strip(s) ==
    LET kept == {i \in 1..Len(s) : ~isspace(s[i])}
        lo == CHOOSE i \in kept : \A j \in kept : i <= j
        hi == CHOOSE i \in kept : \A j \in kept : j <= i
    IN  IF kept = {} THEN <<>> ELSE SubSeq(s, lo, hi)

\* len(s.split()): the number of maximal runs of non-whitespace characters
WordCount(s) ==
    Cardinality({i \in 1..Len(s) :
                    ~isspace(s[i]) /\ (i = 1 \/ isspace(s[i - 1]))})

\* " ".join(parts)
JoinSpace(parts) ==
    LET n == Len(parts)
        F[i \in 0..n] ==
            IF i = 0 THEN <<>>
            ELSE IF i = 1 THEN parts[1]
            ELSE F[i - 1] \o <<" ">> \o parts[i]
    IN  F[n]

\* all sequences over S of length at most n
SeqsUpTo(S, n) == UNION {[1..k -> S] : k \in 0..n}

(***************************************************************************)
(* clean_text, src/main.py 8-11.                                           *)
(***************************************************************************)
\* re.sub(r'\s+', ' ', text): every maximal whitespace run becomes one space
CollapseWhitespace(s) ==
    LET n == Len(s)
        F[i \in 0..n] ==
            IF i = 0 THEN <<>>
            ELSE IF ~isspace(s[i]) THEN Append(F[i - 1], s[i])
            ELSE IF i = 1 \/ ~isspace(s[i - 1]) THEN Append(F[i - 1], " ")
            ELSE F[i - 1]
    IN  F[n]

\* ''.join(char for char in text if char.isprintable())
KeepPrintable(s) == SelectSeq(s, isprintable)

clean_text(s) == strip(KeepPrintable(CollapseWhitespace(s)))

(***************************************************************************)
(* SpecClean: clean_text applied to a raw string, then to its own result.  *)
(***************************************************************************)
RawAlphabet == {"a", " ", "\t", NUL}
RawStrings == SeqsUpTo(RawAlphabet, MaxRawLen)

Idle ==
    /\ doc = NoValue /\ outline = <<>> /\ title = <<>> /\ calls = {}
    /\ locals = NoValue
    /\ pdf_files = <<>> /\ file_index = 0 /\ written = <<>> /\ printed = <<>>

InitClean ==
    /\ Idle
    /\ pc = "clean_input"
    /\ text \in RawStrings
    /\ style = NoValue /\ body_style = NoValue /\ result = NoValue
    /\ cleaned = NoValue /\ recleaned = NoValue

Clean ==
    /\ pc = "clean_input"
    /\ cleaned' = clean_text(text)
    /\ pc' = "cleaned"
    /\ UNCHANGED <<parseVars, mainVars, text, style, body_style, result,
                   recleaned>>

CleanAgain ==
    /\ pc = "cleaned"
    /\ recleaned' = clean_text(cleaned)
    /\ pc' = "recleaned"
    /\ UNCHANGED <<parseVars, mainVars, text, style, body_style, result,
                   cleaned>>

NextClean == Clean \/ CleanAgain

SpecClean == InitClean /\ [][NextClean]_vars

\* C4: clean_text is idempotent, and its result holds no non-printable
\* character, no leading or trailing whitespace and no run of two or more
\* spaces.
HasDoubleSpace(s) == \E i \in 1..(Len(s) - 1) : s[i] = " " /\ s[i + 1] = " "

C4_IdempotentNormalization ==
    /\ pc \in {"cleaned", "recleaned"} =>
          /\ \A i \in 1..Len(cleaned) : isprintable(cleaned[i])
          /\ cleaned # <<>> =>
                ~isspace(cleaned[1]) /\ ~isspace(cleaned[Len(cleaned)])
          /\ ~HasDoubleSpace(cleaned)
    /\ pc = "recleaned" => recleaned = cleaned


(***************************************************************************)
(* is_likely_heading_by_style, src/main.py 13-46.  A style is the tuple    *)
(* (rounded size, bold): style[1] is Python's style[0], style[2] is        *)
(* Python's style[1].                                                      *)
(***************************************************************************)
WordLimit == 15
MinLetters == 3
DashRun == 4

common_labels ==
    {<<"n", "a", "m", "e">>, <<"a", "g", "e">>, <<"s", ".", "n", "o">>, <<"d", "a", "t", "e">>, <<"r", "e", "l", "a", "t", "i", "o", "n", "s", "h", "i", "p">>,
     <<"r", "e", "m", "a", "r", "k", "s">>, <<"v", "e", "r", "s", "i", "o", "n">>, <<"g", "o", "a", "l", "s">>}

non_headings ==
    {<<"m", "i", "s", "s", "i", "o", "n", " ", "s", "t", "a", "t", "e", "m", "e", "n", "t">>, <<"e", "l", "e", "c", "t", "i", "v", "e", " ", "c", "o", "u", "r", "s", "e", " ", "o", "f", "f", "e", "r", "i", "n", "g", "s">>,
     <<"w", "h", "a", "t", " ", "c", "o", "l", "l", "e", "g", "e", "s", " ", "s", "a", "y", "!">>}

\* text.endswith(('.', ':', ','))
EndsWithPunctuation(t) == t # <<>> /\ t[Len(t)] \in {".", ":", ","}

\* re.fullmatch(r'[\d\.]+', text)
IsDottedNumber(t) ==
    t # <<>> /\ \A i \in 1..Len(t) : t[i] \in Digits \cup {"."}

\* len(re.findall(r'[a-zA-Z]', text))
LetterCount(t) == Cardinality({i \in 1..Len(t) : isalpha(t[i])})

\* re.search(r'----', text)
HasDashRun(t) == Contains(t, List([i \in 1..DashRun |-> "-"]))

is_distinct_style(st, body) ==
    st[1] > body[1] \/ (st[1] = body[1] /\ st[2] /\ ~body[2])

is_likely_heading_by_style_no_colon(t, st, body) ==
    IF ~is_distinct_style(st, body) THEN FALSE
    ELSE IF WordCount(t) > WordLimit THEN FALSE
    ELSE IF t # <<>> /\ t[Len(t)] \in {".", ","} THEN FALSE
    ELSE IF lower(t) \in common_labels \/ IsDottedNumber(t) THEN FALSE
    ELSE IF \/ Contains(lower(t), <<"w", "w", "w", ".">>)
            \/ Contains(lower(t), <<".", "c", "o", "m">>)
            \/ HasDashRun(t)
            \/ LetterCount(t) < MinLetters THEN FALSE
    ELSE IF lower(t) \in non_headings THEN FALSE
    ELSE TRUE

is_likely_heading_by_style(t, st, body) ==
    \* Rule 1: a style distinct from the body text (larger or bolder)
    IF ~is_distinct_style(st, body) THEN FALSE
    \* Rule 2: concise
    ELSE IF WordCount(t) > WordLimit THEN FALSE
    \* Rule 3: no sentence-ending punctuation
    ELSE IF EndsWithPunctuation(t) THEN FALSE
    \* Rule 4: no common form/table label, not just a number
    ELSE IF lower(t) \in common_labels \/ IsDottedNumber(t) THEN FALSE
    \* Rule 5: no junk text, URL or excessive symbols
    ELSE IF \/ Contains(lower(t), <<"w", "w", "w", ".">>)
            \/ Contains(lower(t), <<".", "c", "o", "m">>)
            \/ HasDashRun(t)
            \/ LetterCount(t) < MinLetters THEN FALSE
    \* Rule 6: no common non-heading phrase
    ELSE IF lower(t) \in non_headings THEN FALSE
    ELSE TRUE

(***************************************************************************)
(* SpecHeading: the classifier applied to a text, then to the text with a  *)
(* '.' appended, then to the text with that '.' removed again.             *)
(***************************************************************************)
HeadingAlphabet == {"a", "7", ".", "-", " "}

SixteenWords ==
    <<"a">> \o [i \in 1..(2 * WordLimit) |-> IF i % 2 = 1 THEN " " ELSE "a"]

FifteenWords == <<"a", "b", "c">> \o SubSeq(SixteenWords, 2, 2 * WordLimit - 1)

SpecialTexts ==
    {<<"N", "a", "m", "e">>, <<"S", ".", "N", "o">>, <<"G", "o", "a", "l", "s">>, <<"V", "e", "r", "s", "i", "o", "n">>, <<"R", "e", "m", "a", "r", "k", "s", ":">>,
     <<"w", "w", "w", ".", "a", "b", "c">>, <<"a", "b", "c", ".", "c", "o", "m">>, <<"W", "W", "W", ".", "A", "B", "C", ".", "C", "O", "M">>, <<"a", "b", "-", "-", "-", "-", "c", "d">>, <<"1", ".", "2", ".", "3">>,
     <<"M", "i", "s", "s", "i", "o", "n", " ", "S", "t", "a", "t", "e", "m", "e", "n", "t">>, <<"W", "h", "a", "t", " ", "C", "o", "l", "l", "e", "g", "e", "s", " ", "S", "a", "y", "!">>,
     <<"E", "l", "e", "c", "t", "i", "v", "e", " ", "C", "o", "u", "r", "s", "e", " ", "O", "f", "f", "e", "r", "i", "n", "g", "s">>, <<"I", "n", "t", "r", "o", "d", "u", "c", "t", "i", "o", "n">>, <<"S", "u", "m", "m", "a", "r", "y", ",">>,
     <<"C", "h", "a", "p", "t", "e", "r", " ", "1">>, <<"a", "1", " ", "b", "2">>, SixteenWords, FifteenWords}

HeadingTexts == SeqsUpTo(HeadingAlphabet, MaxTextLen) \cup SpecialTexts

HarnessStyles == {<<11, FALSE>>, <<11, TRUE>>, <<12, FALSE>>}

InitHeading ==
    /\ Idle
    /\ pc = "heading_input"
    /\ text \in HeadingTexts
    /\ style \in HarnessStyles
    /\ body_style \in HarnessStyles
    /\ result = NoValue
    /\ cleaned = NoValue /\ recleaned = NoValue

Classify ==
    /\ pc = "heading_input"
    /\ result' = is_likely_heading_by_style(text, style, body_style)
    /\ pc' = "classified"
    /\ UNCHANGED <<parseVars, mainVars, text, style, body_style, cleaned,
                   recleaned>>

\* the accepted text with a '.' appended, classified again
AppendPeriod ==
    /\ pc = "classified"
    /\ result = TRUE
    /\ text' = Append(text, ".")
    /\ result' = is_likely_heading_by_style(text', style, body_style)
    /\ pc' = "period_appended"
    /\ UNCHANGED <<parseVars, mainVars, style, body_style, cleaned,
                   recleaned>>

\* the same text with the period removed, classified again
RemovePeriod ==
    /\ pc = "period_appended"
    /\ text' = SubSeq(text, 1, Len(text) - 1)
    /\ result' = is_likely_heading_by_style(text', style, body_style)
    /\ pc' = "period_removed"
    /\ UNCHANGED <<parseVars, mainVars, style, body_style, cleaned,
                   recleaned>>

NextHeading == Classify \/ AppendPeriod \/ RemovePeriod

SpecHeading == InitHeading /\ [][NextHeading]_vars

\* The six rules as the specification words them, each on its own.
Rule1_StyleDistinction(st, body) ==
    st[1] > body[1] \/ (st[1] = body[1] /\ st[2] = TRUE /\ body[2] = FALSE)
Rule2_Conciseness(t) == WordCount(t) <= 15
Rule3_TerminalPunctuation(t) ==
    t = <<>> \/ (t[Len(t)] # "." /\ t[Len(t)] # ":" /\ t[Len(t)] # ",")
Rule4_LabelNumber(t) ==
    /\ \A l \in common_labels : lower(t) # l
    /\ ~(Len(t) >= 1 /\ {t[i] : i \in 1..Len(t)} \subseteq Digits \cup {"."})
Rule5_JunkUrl(t) ==
    /\ ~Contains(lower(t), <<"w", "w", "w", ".">>)
    /\ ~Contains(lower(t), <<".", "c", "o", "m">>)
    /\ ~Contains(t, <<"-", "-", "-", "-">>)
    /\ Len(SelectSeq(t, isalpha)) >= 3
Rule6_KnownPhrase(t) == \A p \in non_headings : lower(t) # p

\* C9: the classifier returns true exactly when rules 1-6 all hold, in
\* whatever order they are evaluated; an accepted text is rejected once a
\* '.' is appended and accepted again once the period is removed.
C9_HeadingRuleConjunction ==
    /\ pc \in {"classified", "period_appended", "period_removed"} =>
          result = (/\ Rule6_KnownPhrase(text)
                    /\ Rule5_JunkUrl(text)
                    /\ Rule4_LabelNumber(text)
                    /\ Rule3_TerminalPunctuation(text)
                    /\ Rule2_Conciseness(text)
                    /\ Rule1_StyleDistinction(style, body_style))
    /\ pc = "period_appended" => result = FALSE
    /\ pc = "period_removed" => result = TRUE

\* an accepted text was rejected with the period and accepted without it
C9_Witness ==
    /\ pc = "period_removed"
    /\ result = TRUE
    /\ LetterCount(text) >= MinLetters


(***************************************************************************)
(* Numbers and level labels.                                               *)
(***************************************************************************)
\* Python's round() of the non-negative fraction n/d: to the nearest
\* integer, a tie to the even one
RoundHalfEven(n, d) ==
    LET q == n \div d
        r == n % d
    IN  IF 2 * r < d THEN q
        ELSE IF 2 * r > d THEN q + 1
        ELSE IF q % 2 = 0 THEN q ELSE q + 1

\* round(s['size']) of a size in tenths of a point
RoundSize(size) == RoundHalfEven(size, 10)

\* str(n) for n >= 0
DigitChar(k) ==
    CASE k = 0 -> "0" [] k = 1 -> "1" [] k = 2 -> "2" [] k = 3 -> "3"
      [] k = 4 -> "4" [] k = 5 -> "5" [] k = 6 -> "6" [] k = 7 -> "7"
      [] k = 8 -> "8" [] k = 9 -> "9"

RECURSIVE DecimalString(_)
DecimalString(n) ==
    IF n < 10 THEN <<DigitChar(n)>>
    ELSE Append(DecimalString(n \div 10), DigitChar(n % 10))

\* f"H{n}"
LevelLabel(n) == <<"H">> \o DecimalString(n)

\* ord(c) of the characters a level label is made of
CodePoint(c) ==
    CASE c = "0" -> 48 [] c = "1" -> 49 [] c = "2" -> 50 [] c = "3" -> 51
      [] c = "4" -> 52 [] c = "5" -> 53 [] c = "6" -> 54 [] c = "7" -> 55
      [] c = "8" -> 56 [] c = "9" -> 57 [] c = "H" -> 72

\* a < b on Python strings: by code point, a proper prefix first
StrLess(a, b) ==
    \E k \in 1..(Len(b)) :
        /\ \A j \in 1..(k - 1) : j <= Len(a) /\ a[j] = b[j]
        /\ \/ k = Len(a) + 1
           \/ k <= Len(a) /\ CodePoint(a[k]) < CodePoint(b[k])

(***************************************************************************)
(* The document model consumed from fitz: a document has pages and a table *)
(* of contents; a page has blocks; a text block (type 0) has lines; a line *)
(* has spans; a span has its text, its size and its font name.             *)
(***************************************************************************)
Span(t, size, font) == [text |-> t, size |-> size, font |-> font]
Line(spans) == [spans |-> spans]
TextBlock(lines) == [type |-> 0, lines |-> lines]
ImageBlock == [type |-> 1, lines |-> <<>>]
TocEntry(level, t, page) == [level |-> level, title |-> t, page |-> page]
Document(pages, toc) ==
    [page_count |-> Len(pages), pages |-> pages, toc |-> toc]

\* one line of one span, in a block of its own
Para(t, size, font) == TextBlock(<<Line(<<Span(t, size, font)>>)>>)

Regular == <<"A", "r", "i", "a", "l", "M", "T">>
Bold == <<"A", "r", "i", "a", "l", "-", "B", "o", "l", "d", "M", "T">>
BoldUpper == <<"T", "I", "M", "E", "S", "-", "B", "O", "L", "D">>

BodyPara == Para(<<"B", "o", "d", "y", " ", "t", "e", "x", "t", ".">>, 110, Regular)

PageCover ==
    <<Para(<<"A", "n", "n", "u", "a", "l", " ", "R", "e", "p", "o", "r", "t">>, 240, Regular),
      ImageBlock,
      TextBlock(<<Line(<<Span(<<"R", "e", "p", "o", "r", "t">>, 180, Bold)>>),
                  Line(<<Span(<<"B", "o", "d", "y", " ", "t", "e", "x", "t", ".">>, 110, Regular)>>)>>),
      Para(<<"B", "o", "d", "y", " ", " ", "t", "e", "x", "t", ".">>, 110, Regular)>>

PageMixed ==
    <<BodyPara,
      Para(<<"R", "e", "s", "u", "l", "t", "s">>, 180, BoldUpper),
      Para(<<"M", "e", "t", "h", "o", "d", "s">>, 180, Regular),
      Para(<<"O", "v", "e", "r", "v", "i", "e", "w">>, 240, Regular)>>

PageBody ==
    <<BodyPara,
      Para(<<"M", "e", "t", "h", "o", "d", "s", "\t">>, 180, Bold),
      BodyPara,
      Para(<<" ">>, 110, Regular),
      Para(<<"I", "S", "T", "Q", "B">>, 240, Regular)>>

PageContents ==
    <<BodyPara,
      Para(<<"T", "a", "b", "l", "e", " ", "o", "f", " ", "C", "o", "n", "t", "e", "n", "t", "s">>, 180, Bold),
      Para(<<"M", "e", "t", "h", "o", "d", "s">>, 180, Regular),
      Para(<<"R", "e", "s", "u", "l", "t", "s">>, 115, Regular),
      Para(<<"S", "u", "m", "m", "a", "r", "y", ":">>, 200, Regular)>>

PageSpans ==
    <<BodyPara,
      TextBlock(<<Line(<<Span(<<"1", ".">>, 110, Regular),
                         Span(<<"S", "c", "o", "p", "e">>, 180, Bold),
                         Span(<<"a", "n", "d", " ", "G", "o", "a", "l", "s">>, 180, Bold)>>),
                  Line(<<Span(<<"P", "a", "r", "t">>, 180, Regular),
                         Span(<<"O", "n", "e">>, 240, Regular)>>)>>),
      Para(<<"A">>, 280, Regular)>>

SamplePages == {PageCover, PageMixed, PageBody, PageContents, PageSpans}

\* The end-to-end scenario of the specification: two pages, no embedded
\* table of contents.
ScenarioDoc ==
    Document(<<<<Para(<<"I", "n", "t", "r", "o", "d", "u", "c", "t", "i", "o", "n">>, 160, Bold),
                 Para(<<"T", "h", "i", "s", " ", "i", "s", " ", "t", "h", "e", " ", "i", "n", "t", "r", "o", " ", "p", "a", "r", "a", "g", "r", "a", "p", "h", ".">>, 110, Regular)>>,
               <<Para(<<"M", "e", "t", "h", "o", "d", "s">>, 160, Bold)>>>>,
             <<>>)

\* Entries of an embedded table of contents as fitz's get_toc gives them:
\* (level, title, page), the page one-based, and -1 for an entry whose
\* target is not a page of the document.
TocReport == TocEntry(1, <<"R", "e", "p", "o", "r", "t">>, 1)
TocMethodsRaw == TocEntry(2, <<" ", "M", "e", "t", "h", "o", "d", "s", "\t">>, 2)
TocMethods == TocEntry(10, <<"M", "e", "t", "h", "o", "d", "s">>, 2)
TocNumber == TocEntry(1, <<"1", "2">>, 1)
TocNoTarget == TocEntry(2, <<"S", "c", "o", "p", "e">>, -1)

SampleToc == {TocReport, TocMethodsRaw, TocMethods, TocNumber, TocNoTarget}

TocThreshold == 3

\* documents whose table of contents is long enough to be used
TocDocs ==
    {Document(pages, toc) :
        pages \in {<<PageCover, PageBody>>, <<PageBody, PageCover>>},
        toc \in SeqsUpTo(SampleToc, MaxTocLen) \ SeqsUpTo(SampleToc, TocThreshold)}

\* documents with at most 3 entries in their table of contents
StyleDocs ==
    {Document(pages, toc) :
        pages \in SeqsUpTo(SamplePages, MaxPages),
        toc \in SeqsUpTo({TocReport, TocNumber}, TocThreshold)}

DocUniverse == TocDocs \cup StyleDocs \cup {ScenarioDoc}


(***************************************************************************)
(* Outline entries.  An entry is the dict {level, text, page} of the code; *)
(* the model adds src, the position of the table-of-contents entry or of   *)
(* the text line the entry was made from, which the code never reads.      *)
(***************************************************************************)
Entry(level, t, page, src) ==
    [level |-> level, text |-> t, page |-> page, src |-> src]

\* the concatenation of a sequence of sequences
Flatten(seqs) ==
    LET n == Len(seqs)
        F[i \in 0..n] == IF i = 0 THEN <<>> ELSE F[i - 1] \o seqs[i]
    IN  F[n]

\* Counter(items).most_common(1)[0][0]: the most frequent item, the one
\* seen first among equally frequent ones
MostCommon(items) ==
    LET Count(x) == Cardinality({k \in 1..Len(items) : items[k] = x})
        First(x) == CHOOSE k \in 1..Len(items) :
                        items[k] = x /\ \A j \in 1..(k - 1) : items[j] # x
        best == CHOOSE i \in 1..Len(items) :
                    /\ First(items[i]) = i
                    /\ \A j \in 1..Len(items) :
                          \/ Count(items[j]) < Count(items[i])
                          \/ /\ Count(items[j]) = Count(items[i])
                             /\ i <= First(items[j])
    IN  items[best]

(***************************************************************************)
(* process_from_toc, src/main.py 48-64.                                    *)
(***************************************************************************)
\* str.isdigit()
isdigit(t) == t # <<>> /\ \A i \in 1..Len(t) : t[i] \in Digits

process_from_toc(d) ==
    LET toc == d.toc
        n == Len(toc)
        F[i \in 0..n] ==
            IF i = 0 THEN <<>>
            ELSE LET clean_title == clean_text(toc[i].title)
                 IN  IF ~isdigit(clean_title)
                     THEN Append(F[i - 1], Entry(LevelLabel(toc[i].level),
                                                 clean_title,
                                                 toc[i].page, i))
                     ELSE F[i - 1]
    IN  F[n]

(***************************************************************************)
(* process_by_styles, src/main.py 66-120.                                  *)
(***************************************************************************)
\* 'bold' in s['font'].lower()
IsBoldFont(font) == Contains(lower(font), <<"b", "o", "l", "d">>)

\* lines 78-91 for one line of page number page_num (zero-based): the
\* entry of lines_with_styles, or nothing for a line without text
LineWithStyle(l, page_num) ==
    LET line_text ==
            clean_text(JoinSpace(List([k \in 1..Len(l.spans) |->
                                          l.spans[k].text])))
        span_styles ==
            List([k \in 1..Len(l.spans) |->
                     <<RoundSize(l.spans[k].size),
                       IsBoldFont(l.spans[k].font)>>])
    IN  IF line_text = <<>> \/ span_styles = <<>> THEN <<>>
        ELSE <<[text |-> line_text,
                style |-> MostCommon(span_styles),
                page |-> page_num + 1]>>

\* lines 74-92: lines_with_styles, in page, block and line order
lines_with_styles(d) ==
    LET OfBlock(b, page_num) ==
            IF b.type = 0
            THEN Flatten(List([k \in 1..Len(b.lines) |->
                                  LineWithStyle(b.lines[k], page_num)]))
            ELSE <<>>
        OfPage(page, page_num) ==
            Flatten(List([k \in 1..Len(page) |->
                             OfBlock(page[k], page_num)]))
    IN  Flatten(List([p \in 1..Len(d.pages) |->
                          OfPage(d.pages[p], p - 1)]))

\* line 97: style_counts.most_common(1)[0][0]; style_counts counts the
\* style of every entry of lines_with_styles, in that order
\* style_counts.most_common()[-1][0]: the least frequent style, the one seen
\* last among equally rare ones
BodyStyleLeastCommon(lines) ==
    LET styles == List([k \in 1..Len(lines) |-> lines[k].style])
        Count(x) == Cardinality({k \in 1..Len(styles) : styles[k] = x})
        last == CHOOSE i \in 1..Len(styles) :
                    \A j \in 1..Len(styles) :
                        \/ Count(styles[j]) > Count(styles[i])
                        \/ Count(styles[j]) = Count(styles[i]) /\ j <= i
    IN  styles[last]

BodyStyle(lines) ==
    MostCommon(List([k \in 1..Len(lines) |-> lines[k].style]))

\* lines 99-104: the positions in lines_with_styles of heading_lines
HeadingPositions(lines, body) ==
    {k \in 1..Len(lines) :
        is_likely_heading_by_style(lines[k].text, lines[k].style, body)}

\* a different order: among styles of one size the plain one comes first
StyleBeforeUnbolded(x, y) == x[1] > y[1] \/ (x[1] = y[1] /\ ~x[2] /\ y[2])

\* x before y in sorted(..., key=lambda x: (x[0], x[1]), reverse=True)
StyleBefore(x, y) == x[1] > y[1] \/ (x[1] = y[1] /\ x[2] /\ ~y[2])

\* line 106: sorted_heading_styles
RECURSIVE SortedStyles(_)
SortedStyles(styles) ==
    IF styles = {} THEN <<>>
    ELSE LET first == CHOOSE x \in styles :
                          \A y \in styles \ {x} : StyleBefore(x, y)
         IN  <<first>> \o SortedStyles(styles \ {first})

\* line 107: level_map
LevelMap(sorted_heading_styles) ==
    [st \in {sorted_heading_styles[i] : i \in 1..Len(sorted_heading_styles)} |->
        LevelLabel(CHOOSE i \in 1..Len(sorted_heading_styles) :
                       sorted_heading_styles[i] = st)]

DefaultLevel == 9

\* lines 109-120: one entry for the first heading line of every text
StyleOutline(lines, heading, level_map) ==
    LET n == Len(lines)
        F[i \in 0..n] ==
            IF i = 0 THEN <<>>
            ELSE LET before == F[i - 1]
                     processed_texts ==
                         {before[k].text : k \in 1..Len(before)}
                 IN  IF i \in heading /\ lines[i].text \notin processed_texts
                     THEN Append(before,
                                 Entry(IF lines[i].style \in DOMAIN level_map
                                       THEN level_map[lines[i].style]
                                       ELSE LevelLabel(DefaultLevel),
                                       lines[i].text, lines[i].page, i))
                     ELSE before
    IN  F[n]

\* the locals of process_by_styles at its return
StyleLocals(d) ==
    LET lines == lines_with_styles(d)
    IN  IF lines = <<>>
        THEN [lines_with_styles |-> lines, body_style |-> NoValue,
              heading |-> {}, level_map |-> <<>>, outline |-> <<>>]
        ELSE LET body == BodyStyle(lines)
                 heading == HeadingPositions(lines, body)
                 level_map ==
                     LevelMap(SortedStyles({lines[k].style : k \in heading}))
             IN  [lines_with_styles |-> lines, body_style |-> body,
                  heading |-> heading, level_map |-> level_map,
                  outline |-> StyleOutline(lines, heading, level_map)]

process_by_styles(d) == StyleLocals(d).outline

(***************************************************************************)
(* extract_title, src/main.py 122-156.                                     *)
(***************************************************************************)
TitleMinLen == 2
SpanMinLen == 1

title_blacklist ==
    {<<"i", "s", "t", "q", "b">>, <<"t", "o", "p", "j", "u", "m", "p">>, <<"w", "w", "w", ".", "t", "o", "p", "j", "u", "m", "p", ".", "c", "o", "m">>,
     <<"y", "o", "u", "'", "r", "e", " ", "i", "n", "v", "i", "t", "e", "d", " ", "t", "o", " ", "a", " ", "p", "a", "r", "t", "y">>}

\* the spans of a page, in block and line order
PageSpanList(page) ==
    LET OfBlock(b) ==
            IF b.type = 0
            THEN Flatten(List([k \in 1..Len(b.lines) |-> b.lines[k].spans]))
            ELSE <<>>
    IN  Flatten(List([k \in 1..Len(page) |-> OfBlock(page[k])]))

\* lines 132-140: the largest size of a span of more than one character
MaxFontSize(spans) ==
    LET sizes == {spans[k].size : k \in {j \in 1..Len(spans) :
                      Len(strip(spans[j].text)) > SpanMinLen}} \cup {0}
    IN  CHOOSE m \in sizes : \A x \in sizes : x <= m

\* round(max_font_size * 0.95), sizes in tenths of a point.  (No size of
\* the model makes the product a tie, where floating point could differ.)
TitleThreshold(max_font_size) == RoundHalfEven(max_font_size * 95, 1000)

extract_title(d) ==
    IF d.page_count = 0 THEN <<>>
    ELSE LET spans == PageSpanList(d.pages[1])
             max_font_size == MaxFontSize(spans)
             IsCandidate(s) ==
                 /\ RoundSize(s.size) >= TitleThreshold(max_font_size)
                 /\ Len(clean_text(s.text)) > TitleMinLen
                 /\ lower(clean_text(s.text)) \notin title_blacklist
             candidates == SelectSeq(spans, IsCandidate)
         IN  IF max_font_size = 0 THEN <<>>
             ELSE JoinSpace(List([k \in 1..Len(candidates) |->
                                     clean_text(candidates[k].text)]))

(***************************************************************************)
(* parse_pdf_to_outline, src/main.py 159-192.                              *)
(***************************************************************************)
\* line 173: toc and len(toc) > 3
UseTocAtThree(toc) == toc # <<>> /\ Len(toc) >= TocThreshold

UseToc(toc) == toc # <<>> /\ Len(toc) > TocThreshold

\* line 184: the entries whose text is not part of the title
WithoutTitleParts(entries, t) ==
    LET NotInTitle(e) == ~Contains(t, e.text)
    IN  SelectSeq(entries, NotInTitle)

\* the order of the sort key (x['page'], x['level'])
KeyLessNumeric(a, b) ==
    \/ a.page < b.page
    \/ a.page = b.page /\ Len(a.level) < Len(b.level)
    \/ a.page = b.page /\ Len(a.level) = Len(b.level)
                       /\ StrLess(a.level, b.level)

KeyLess(a, b) ==
    a.page < b.page \/ (a.page = b.page /\ StrLess(a.level, b.level))

\* line 188: list.sort, which is stable
SortByPageLevel(entries) ==
    LET Insert(sorted, e) ==
            LET after == {k \in 1..Len(sorted) : KeyLess(e, sorted[k])}
                at == IF after = {} THEN Len(sorted) + 1
                      ELSE CHOOSE k \in after : \A j \in after : k <= j
            IN  SubSeq(sorted, 1, at - 1) \o <<e>>
                    \o SubSeq(sorted, at, Len(sorted))
        n == Len(entries)
        F[i \in 0..n] ==
            IF i = 0 THEN <<>> ELSE Insert(F[i - 1], entries[i])
    IN  F[n]

\* lines 189-190: item['page'] -= 1 for every item
CorrectPages(entries) ==
    List([k \in 1..Len(entries) |->
             [entries[k] EXCEPT !.page = entries[k].page - 1]])

\* lines 187-190
SortAndCorrect(entries) ==
    IF entries # <<>> THEN CorrectPages(SortByPageLevel(entries))
    ELSE entries

\* the whole function on an open document: output
parse_pdf_to_outline(d) ==
    IF d.page_count = 0 THEN [title |-> <<>>, outline |-> <<>>]
    ELSE LET found == IF UseToc(d.toc) THEN process_from_toc(d)
                      ELSE process_by_styles(d)
             t == extract_title(d)
             kept == IF t # <<>> THEN WithoutTitleParts(found, t) ELSE found
         IN  [title |-> t, outline |-> SortAndCorrect(kept)]

(***************************************************************************)
(* Spec: parse_pdf_to_outline, one step per stage, on any document of the  *)
(* universe.                                                               *)
(***************************************************************************)
IdleMain ==
    pdf_files = <<>> /\ file_index = 0 /\ written = <<>> /\ printed = <<>>

IdleText ==
    /\ text = NoValue /\ style = NoValue /\ body_style = NoValue
    /\ result = NoValue /\ cleaned = NoValue /\ recleaned = NoValue

Init ==
    /\ IdleMain /\ IdleText
    /\ pc = "opened"
    /\ doc \in DocUniverse
    /\ outline = <<>> /\ title = <<>> /\ calls = {} /\ locals = NoValue

\* lines 165-166
ReturnEmpty ==
    /\ pc = "opened"
    /\ doc.page_count = 0
    /\ pc' = "done"
    /\ UNCHANGED <<parseVars, mainVars, textVars>>

\* lines 172-174
FromToc ==
    /\ pc = "opened"
    /\ doc.page_count # 0
    /\ UseToc(doc.toc)
    /\ outline' = process_from_toc(doc)
    /\ calls' = calls \cup {"process_from_toc"}
    /\ pc' = "strategy_done"
    /\ UNCHANGED <<doc, title, locals, mainVars, textVars>>

\* lines 175-177
ByStyles ==
    /\ pc = "opened"
    /\ doc.page_count # 0
    /\ ~UseToc(doc.toc)
    /\ locals' = StyleLocals(doc)
    /\ outline' = process_by_styles(doc)
    /\ calls' = calls \cup {"process_by_styles"} \cup
                    (IF locals'.lines_with_styles # <<>>
                     THEN {"is_likely_heading_by_style"} ELSE {})
    /\ pc' = "strategy_done"
    /\ UNCHANGED <<doc, title, mainVars, textVars>>

\* line 180
ExtractTitle ==
    /\ pc = "strategy_done"
    /\ title' = extract_title(doc)
    /\ calls' = calls \cup {"extract_title"}
    /\ pc' = "titled"
    /\ UNCHANGED <<doc, outline, locals, mainVars, textVars>>

\* lines 182-184
RemoveTitleParts ==
    /\ pc = "titled"
    /\ outline' = IF title # <<>> THEN WithoutTitleParts(outline, title)
                  ELSE outline
    /\ pc' = "filtered"
    /\ UNCHANGED <<doc, title, calls, locals, mainVars, textVars>>

\* lines 186-192
SortAndReturn ==
    /\ pc = "filtered"
    /\ outline' = SortAndCorrect(outline)
    /\ pc' = "done"
    /\ UNCHANGED <<doc, title, calls, locals, mainVars, textVars>>

Next ==
    \/ ReturnEmpty
    \/ FromToc
    \/ ByStyles
    \/ ExtractTitle
    \/ RemoveTitleParts
    \/ SortAndReturn

Spec == Init /\ [][Next]_vars

\* the stepwise run returns what the function returns
StepsAgree ==
    pc = "done" =>
        [title |-> title, outline |-> outline] = parse_pdf_to_outline(doc)


(***************************************************************************)
(* Properties of parse_pdf_to_outline (Spec).                              *)
(***************************************************************************)
Done == pc = "done"
OnTocPath == "process_from_toc" \in calls
OnStylePath == "process_by_styles" \in calls
StyleFunctions == {"process_by_styles", "is_likely_heading_by_style"}

\* the entry as the code holds it
AsDict(e) == [level |-> e.level, text |-> e.text, page |-> e.page]
Dicts(entries) == List([k \in 1..Len(entries) |-> AsDict(entries[k])])

NormalizedTitle(i) == clean_text(doc.toc[i].title)
PurelyNumeric(t) == Len(t) > 0 /\ {t[i] : i \in 1..Len(t)} \subseteq Digits
LevelOfToc(i) == <<"H">> \o DecimalString(doc.toc[i].level)

\* a <= b on level strings
LevelLeq(a, b) == a = b \/ StrLess(a, b)

\* the k-th smallest element of a set of numbers
Nth(S, k) == CHOOSE i \in S : Cardinality({j \in S : j < i}) = k - 1

\* C1 as written: with more than 3 TOC entries the outline is the TOC in TOC
\* order, each entry mapped to ('H'+level, normalized title, entry.page),
\* minus the purely numeric titles, and the style functions are not
\* invoked; with 0 to 3 entries the style path is used.
C1_TocPrecedence ==
    Done /\ doc.page_count >= 1 =>
        IF Len(doc.toc) > 3
        THEN LET kept == {i \in 1..Len(doc.toc) :
                             ~PurelyNumeric(NormalizedTitle(i))}
             IN  /\ Len(outline) = Cardinality(kept)
                 /\ \A k \in 1..Len(outline) :
                       AsDict(outline[k]) =
                           [level |-> LevelOfToc(Nth(kept, k)),
                            text |-> NormalizedTitle(Nth(kept, k)),
                            page |-> doc.toc[Nth(kept, k)].page]
                 /\ calls \cap StyleFunctions = {}
        ELSE OnStylePath /\ ~OnTocPath

\* C1 as amended: with more than 3 TOC entries the outline holds exactly
\* the TOC entries whose normalized title is neither purely numeric nor
\* (when the extracted title is not empty) a substring of the title, each
\* mapped to ('H'+level, normalized title, entry.page - 1), ordered by
\* (page, level as a string) and in TOC order where those are equal, and
\* the style functions are not invoked; with 0 to 3 entries the style path
\* is used.
C1_TocPrecedence_Amended ==
    Done /\ doc.page_count >= 1 =>
        IF Len(doc.toc) > 3
        THEN LET kept == {i \in 1..Len(doc.toc) :
                             /\ ~PurelyNumeric(NormalizedTitle(i))
                             /\ title = <<>> \/
                                   ~Contains(title, NormalizedTitle(i))}
             IN  /\ Len(outline) = Cardinality(kept)
                 /\ {outline[k].src : k \in 1..Len(outline)} = kept
                 /\ \A k \in 1..Len(outline) :
                       AsDict(outline[k]) =
                           [level |-> LevelOfToc(outline[k].src),
                            text |-> NormalizedTitle(outline[k].src),
                            page |-> doc.toc[outline[k].src].page - 1]
                 /\ \A k \in 1..(Len(outline) - 1) :
                       LET a == outline[k]
                           b == outline[k + 1]
                       IN  \/ a.page < b.page
                           \/ a.page = b.page /\ StrLess(a.level, b.level)
                           \/ a.page = b.page /\ a.level = b.level
                                              /\ a.src < b.src
                 /\ calls \cap StyleFunctions = {}
        ELSE OnStylePath /\ ~OnTocPath

\* the TOC path ran, dropped a numeric title and a part of the title, and
\* returned the rest in another order than the TOC's
C1_Witness ==
    /\ Done /\ OnTocPath /\ Len(doc.toc) > 3
    /\ \E i \in 1..Len(doc.toc) : PurelyNumeric(NormalizedTitle(i))
    /\ \E i \in 1..Len(doc.toc) :
          title # <<>> /\ Contains(title, NormalizedTitle(i))
    /\ \E k \in 1..(Len(outline) - 1) : outline[k].src > outline[k + 1].src

\* C2: no two entries of a returned outline have the same text, on either
\* path, and the entry kept for a text is made from the first candidate
\* (TOC entry or accepted line) with that text.
CandidateText(i) ==
    IF OnTocPath THEN NormalizedTitle(i) ELSE locals.lines_with_styles[i].text

C2_TextUniqueness ==
    Done /\ doc.page_count >= 1 =>
        /\ \A i, j \in 1..Len(outline) :
              i # j => outline[i].text # outline[j].text
        /\ \A k \in 1..Len(outline) :
              \A i \in 1..(outline[k].src - 1) :
                  CandidateText(i) = outline[k].text =>
                      OnStylePath /\ i \notin locals.heading

\* C3 as written: the scenario document yields no title and both headings.
ScenarioDone == Done /\ doc = ScenarioDoc

C3_Scenario ==
    ScenarioDone =>
        /\ title = <<>>
        /\ Dicts(outline) =
              <<[level |-> <<"H", "1">>, text |-> <<"I", "n", "t", "r", "o", "d", "u", "c", "t", "i", "o", "n">>, page |-> 0],
                [level |-> <<"H", "1">>, text |-> <<"M", "e", "t", "h", "o", "d", "s">>, page |-> 1]>>

\* C3 as amended: the scenario document yields the title "Introduction" and
\* an empty outline (its most frequent style is (16, bold), so no line is
\* larger or bolder than the body, and the 16pt span of page 1 is the title).
C3_Scenario_Amended ==
    ScenarioDone => title = <<"I", "n", "t", "r", "o", "d", "u", "c", "t", "i", "o", "n">> /\ outline = <<>>

\* the scenario document was parsed on the style path, with body (16, bold)
C3_Witness ==
    ScenarioDone /\ OnStylePath /\ locals.body_style = <<16, TRUE>>

\* C5: the level map is a bijection between the styles of the accepted
\* lines and H1..Hn, in the order (size descending, bold first); 24pt,
\* 18pt-bold, 18pt-plain get H1, H2, H3; and every entry's level is the
\* map's level of its line's style (the default is never used).
AcceptedByRules(t, st, body) ==
    /\ Rule1_StyleDistinction(st, body)
    /\ Rule2_Conciseness(t)
    /\ Rule3_TerminalPunctuation(t)
    /\ Rule4_LabelNumber(t)
    /\ Rule5_JunkUrl(t)
    /\ Rule6_KnownPhrase(t)

AcceptedStyles ==
    LET lines == locals.lines_with_styles
    IN  {lines[k].style : k \in {j \in 1..Len(lines) :
            AcceptedByRules(lines[j].text, lines[j].style, locals.body_style)}}

StyleStage == pc = "strategy_done" /\ OnStylePath

C5_LevelOrdering ==
    StyleStage =>
        LET level_map == locals.level_map
            n == Cardinality(AcceptedStyles)
            Rank(st) == CHOOSE i \in 1..n :
                            level_map[st] = <<"H">> \o DecimalString(i)
        IN  /\ DOMAIN level_map = AcceptedStyles
            /\ {level_map[st] : st \in AcceptedStyles} =
                  {<<"H">> \o DecimalString(i) : i \in 1..n}
            /\ \A x, y \in AcceptedStyles :
                  (x[1] > y[1] \/ (x[1] = y[1] /\ x[2] /\ ~y[2])) =>
                      Rank(x) < Rank(y)
            /\ AcceptedStyles = {<<24, FALSE>>, <<18, TRUE>>, <<18, FALSE>>} =>
                  /\ level_map[<<24, FALSE>>] = <<"H", "1">>
                  /\ level_map[<<18, TRUE>>] = <<"H", "2">>
                  /\ level_map[<<18, FALSE>>] = <<"H", "3">>
            /\ \A k \in 1..Len(outline) :
                  LET st == locals.lines_with_styles[outline[k].src].style
                  IN  st \in DOMAIN level_map /\ outline[k].level = level_map[st]

\* the three styles of the example were accepted, beside a line that is
\* larger than the body text and was rejected by a text rule
C5_Witness ==
    /\ StyleStage
    /\ AcceptedStyles = {<<24, FALSE>>, <<18, TRUE>>, <<18, FALSE>>}
    /\ Len(outline) >= 3
    /\ \E k \in 1..Len(locals.lines_with_styles) :
          LET l == locals.lines_with_styles[k]
          IN  /\ Rule1_StyleDistinction(l.style, locals.body_style)
              /\ ~AcceptedByRules(l.text, l.style, locals.body_style)

\* C7: every returned entry's page is its internal one-based page number
\* minus 1, a first-page heading has page 0, and no page is negative.
InternalPage(e) ==
    IF OnTocPath THEN doc.toc[e.src].page
    ELSE locals.lines_with_styles[e.src].page

C7_PageNormalization ==
    Done /\ doc.page_count >= 1 =>
        \A k \in 1..Len(outline) :
            /\ outline[k].page = InternalPage(outline[k]) - 1
            /\ InternalPage(outline[k]) = 1 => outline[k].page = 0
            /\ outline[k].page >= 0

\* C8: consecutive entries of a returned outline ascend by page, then by
\* level as a string; entries equal in both keep their discovery order.
C8_OutputOrdering ==
    Done =>
        \A k \in 1..(Len(outline) - 1) :
            LET a == outline[k]
                b == outline[k + 1]
            IN  /\ \/ a.page < b.page
                   \/ a.page = b.page /\ LevelLeq(a.level, b.level)
                /\ a.page = b.page /\ a.level = b.level => a.src < b.src

\* 'H10' was returned before 'H2' on one page, and two entries equal in
\* page and level were returned in their discovery order
C8_Witness ==
    /\ Done
    /\ \E k \in 1..(Len(outline) - 1) :
          /\ outline[k].page = outline[k + 1].page
          /\ outline[k].level = <<"H", "1", "0">>
          /\ outline[k + 1].level = <<"H", "2">>
    /\ \E k \in 1..(Len(outline) - 1) :
          /\ outline[k].page = outline[k + 1].page
          /\ outline[k].level = outline[k + 1].level

\* C10: on the style path, the only entries taken from a page that holds a
\* line containing 'table of contents' are such marker lines.
IsTocMarker(t) == Contains(lower(t), <<"t", "a", "b", "l", "e", " ", "o", "f", " ", "c", "o", "n", "t", "e", "n", "t", "s">>)

IsTocPage(page) ==
    \E k \in 1..Len(locals.lines_with_styles) :
        /\ locals.lines_with_styles[k].page = page
        /\ IsTocMarker(locals.lines_with_styles[k].text)

C10_TocPageOverride ==
    Done /\ OnStylePath =>
        \A k \in 1..Len(outline) :
            IsTocPage(outline[k].page + 1) => IsTocMarker(outline[k].text)


(***************************************************************************)
(* main, src/main.py 194-214.  A file of ./input has a name and what       *)
(* reading it gives: a document, a fitz.open that raises ("unopenable"),   *)
(* or a document whose pages raise when their text is read ("damaged").    *)
(* Its field docs holds the document, if reading gives one.                *)
(***************************************************************************)
InputFile(name, kind, docs) == [name |-> name, kind |-> kind, docs |-> docs]

FileNames == {<<"a", ".", "p", "d", "f">>, <<"b", ".", "p", "d", "f">>, <<"c", ".", "d", ".", "p", "d", "f">>}

MainDocs ==
    {ScenarioDoc,
     Document(<<>>, <<>>),
     Document(<<PageCover, PageBody>>,
              <<TocReport, TocMethodsRaw, TocMethods, TocNumber>>)}

FileContents ==
    {<<"pdf", <<d>>>> : d \in MainDocs}
        \cup {<<"unopenable", <<>>>>, <<"damaged", <<>>>>}

\* the directory listings: files of distinct names, in any order
Listings ==
    {files \in SeqsUpTo({InputFile(name, c[1], c[2]) :
                            name \in FileNames, c \in FileContents}, MaxFiles) :
        \A i, j \in 1..Len(files) :
            i # j => files[i].name # files[j].name}

\* pdf_file.stem: the name without its last suffix
Stem(name) ==
    LET dots == {i \in 2..Len(name) : name[i] = "."}
        last == CHOOSE i \in dots : \A j \in dots : j <= i
    IN  IF dots = {} THEN name ELSE SubSeq(name, 1, last - 1)

\* line 209: output_dir / f"{pdf_file.stem}.json"
OutputName(name) == Stem(name) \o <<".", "j", "s", "o", "n">>

\* whether parse_pdf_to_outline(pdf_file) raises
Raises(file) == file.kind # "pdf"

\* the loop position after the except clause of lines 213-214: the loop
\* goes on with the next file
AfterErrorLeaveLoop(i, files) == Len(files) + 1

AfterError(i, files) == i + 1

InitMain ==
    /\ IdleText
    /\ pc = "main"
    /\ pdf_files \in Listings
    /\ file_index = 1
    /\ written = <<>> /\ printed = <<>>
    /\ doc = NoValue /\ outline = <<>> /\ title = <<>> /\ calls = {}
    /\ locals = NoValue

\* lines 201-203
NoPdfFiles ==
    /\ pc = "main"
    /\ pdf_files = <<>>
    /\ printed' = Append(printed, <<"No PDF files found", <<>>>>)
    /\ pc' = "exit"
    /\ UNCHANGED <<parseVars, pdf_files, file_index, written, textVars>>

\* lines 205-212: one turn of the loop whose try block completes
ProcessFile ==
    /\ pc = "main"
    /\ file_index <= Len(pdf_files)
    /\ ~Raises(pdf_files[file_index])
    /\ LET pdf_file == pdf_files[file_index]
           structured_data == parse_pdf_to_outline(pdf_file.docs[1])
           output_file == OutputName(pdf_file.name)
       IN  /\ doc' = pdf_file.docs[1]
           /\ title' = structured_data.title
           /\ outline' = structured_data.outline
           /\ written' = Append(written, [name |-> output_file,
                                          data |-> structured_data])
           /\ printed' = printed \o <<<<"Processing", pdf_file.name>>,
                                      <<"Successfully generated", output_file>>>>
    /\ file_index' = file_index + 1
    /\ UNCHANGED <<calls, locals, pdf_files, pc, textVars>>

\* lines 205-208, 213-214: one turn of the loop whose try block raises
ProcessFileError ==
    /\ pc = "main"
    /\ file_index <= Len(pdf_files)
    /\ LET pdf_file == pdf_files[file_index]
       IN  /\ Raises(pdf_file)
           /\ printed' = printed \o <<<<"Processing", pdf_file.name>>,
                                      <<"Error processing", pdf_file.name>>>>
    /\ file_index' = AfterError(file_index, pdf_files)
    /\ UNCHANGED <<parseVars, pdf_files, written, pc, textVars>>

\* the loop is over
LoopEnd ==
    /\ pc = "main"
    /\ pdf_files # <<>>
    /\ file_index > Len(pdf_files)
    /\ pc' = "exit"
    /\ UNCHANGED <<parseVars, mainVars, textVars>>

NextMain == NoPdfFiles \/ ProcessFile \/ ProcessFileError \/ LoopEnd

SpecMain == InitMain /\ [][NextMain]_vars

\* C6: when main is over, a file whose opening or parsing failed has no
\* output file and a diagnostic naming it, and every other file of the
\* batch has exactly one output file named after it, wherever the failing
\* files stand in the processing order.
WritesNamed(name) == {k \in 1..Len(written) : written[k].name = name}

C6_FailureIsolation ==
    pc = "exit" =>
        \A i \in 1..Len(pdf_files) :
            LET file == pdf_files[i]
                output_file == SubSeq(file.name, 1, Len(file.name) - 4)
                                   \o <<".", "j", "s", "o", "n">>
            IN  IF file.kind \in {"unopenable", "damaged"}
                THEN /\ WritesNamed(output_file) = {}
                     /\ \E k \in 1..Len(printed) :
                           printed[k] = <<"Error processing", file.name>>
                ELSE Cardinality(WritesNamed(output_file)) = 1

\* main is over; the first file failed and a later file was written
C6_Witness ==
    /\ pc = "exit"
    /\ Len(pdf_files) >= 2
    /\ pdf_files[1].kind \in {"unopenable", "damaged"}
    /\ printed[2] = <<"Error processing", pdf_files[1].name>>
    /\ \E i \in 2..Len(pdf_files) :
          /\ pdf_files[i].kind = "pdf"
          /\ WritesNamed(OutputName(pdf_files[i].name)) # {}

=============================================================================
